---- MODULE Spec2Model ----
(***************************************************************************)
(* Model of the vs-markdown-sidebar extension:                             *)
(*   - MarkdownEditorProvider (extension host side): the open document's   *)
(*     path and text, the auto-save timer, the workspace state (last file, *)
(*     recent files) and the asynchronous file reads and writes;           *)
(*   - the webview script: editor, preview, mode flags;                    *)
(*   - the two message channels between them.                              *)
(* Every handler runs to its next await in one step (single-threaded event *)
(* loop); an await on I/O is a suspension point modelled by a record in    *)
(* pendingReads / pendingSaves that a later step completes.                *)
(***************************************************************************)
EXTENDS Integers, Sequences, FiniteSets, Bags, TLC

(* ------------------------------ bounds --------------------------------- *)
NumPaths == 2          \* paths the user picks in the full system
NumRecentPaths == 11   \* paths opened in the recent-files specification
MaxReopens == 3        \* re-opens of an already opened path (recent-files spec.)
MaxQueue == 1          \* messages in flight per channel
MaxReads == 1          \* file reads in flight
MaxSaves == 1          \* manual saves awaiting their write
MaxTimers == 3         \* pending timers (only a faulty scheduler exceeds one)
MaxPasses == 2         \* render passes awaiting a diagram
MaxMermaidId == 3      \* value the diagram id counter may reach
MaxBurst == 2          \* changes counted in one burst (the count saturates)

(* --------------------------- program constants -------------------------- *)
MAX_RECENT_FILES == 10

None == 0                      \* undefined (no uri, no stored path, no handle)
Paths == 1..NumPaths
RecentPaths == 1..NumRecentPaths
TimerIds == 1..(MaxTimers + 1)

(* A text is a sequence of blocks: "p" a paragraph of prose, "m" a fenced    *)
(* mermaid block.  The empty sequence is the empty string.                  *)
EmptyText == <<>>
ProseTexts == {<<>>, <<"p">>}       \* the texts of the document-session specifications
DiagramTexts == {<<"p">>, <<"m">>, <<"m", "m">>}   \* the texts of the rendering spec.

VARIABLES
    (* MarkdownEditorProvider *)
    view,             \* _view is set (resolveWebviewView has run)
    currentFileUri,   \* _currentFileUri: a path or None
    currentContent,   \* _currentContent
    autoSaveTimeout,  \* _autoSaveTimeout: handle of the last armed timer or None
    timers,           \* timers armed with setTimeout and neither fired nor cleared:
                      \* [id], with what is known of the arming contentChanged event:
                      \* the path open and the text it carried, its rank k in its
                      \* burst, and whether an open or restore has replaced the text
                      \* since
    lastFile,         \* workspaceState[LAST_FILE_KEY]: a path or None
    recentFiles,      \* workspaceState[RECENT_FILES_KEY]
    pendingReads,     \* bag of the readFile calls awaited: [op, path, from], from
                      \* being _currentFileUri when the operation was requested
    pendingSaves,     \* outcomes of the writeFile calls that saveFile awaits, oldest first
    (* channels *)
    toWebview,        \* webview.postMessage: provider -> webview script
    toProvider,       \* vscode.postMessage: webview script -> provider
    (* webview script *)
    hasFile, isPreviewMode, mermaidId, editorValue,
    editorHidden, previewHidden, modeIndicator,
    preview,          \* preview.innerHTML: the diagram regions, in document order
    passes,           \* renderPreview calls awaiting mermaid.render
    (* observation *)
    lastAct,          \* the failure path or timer expiry the last step took ("" otherwise)
    shown,            \* the notification that step showed ("" when none)
    lastWrite,        \* the writeFile call that step issued, and the timer that issued it
    burstWrites,      \* auto-save writes of the burst of changes whose timer is pending
    mru,              \* every path opened so far, most recently opened first
    reopens,          \* opens requested of a path requested before (recent-files spec.)
    owner             \* the path whose text the in-memory text (mem) and the editor's
                      \* text (ed) are: read from it, or typed while its text was shown
                      \* (followed only where track is set: the writes specification)

provider == <<view, currentFileUri, currentContent, autoSaveTimeout, timers,
              lastFile, recentFiles, pendingReads, pendingSaves>>
channels == <<toWebview, toProvider>>
webview  == <<hasFile, isPreviewMode, mermaidId, editorValue, editorHidden,
              previewHidden, modeIndicator, preview, passes>>
observed == <<lastAct, shown, lastWrite, burstWrites, mru, reopens, owner>>
vars == <<provider, channels, webview, observed>>

NoTimer == [id |-> None, path |-> None, text |-> EmptyText, k |-> 0,
            superseded |-> FALSE]
NoWrite == [kind |-> "none", path |-> None, text |-> EmptyText, ok |-> TRUE,
            by |-> NoTimer, nth |-> 0, afterFailedSave |-> FALSE]

(* ------------------------------ helpers -------------------------------- *)
Range(s) == {s[i] : i \in 1..Len(s)}
SelectSeqNe(s, x) == SelectSeq(s, LAMBDA f : f /= x)
Take(s, n) == SubSeq(s, 1, IF Len(s) < n THEN Len(s) ELSE n)
Max(S) == CHOOSE x \in S : \A y \in S : y <= x

(* Messages: [type, content, resend, of]; resend marks the loadContent      *)
(* message by which _restoreContent sends the in-memory text again, and of  *)
(* is the path whose text the content is.                                   *)
LoadContent(content, of) ==
    [type |-> "loadContent", content |-> content, resend |-> FALSE, of |-> of]
ResendContent(content, of) ==
    [type |-> "loadContent", content |-> content, resend |-> TRUE, of |-> of]
ToggleMsg == [type |-> "togglePreview", content |-> EmptyText, resend |-> FALSE, of |-> None]
ContentChanged(content, of) ==
    [type |-> "contentChanged", content |-> content, resend |-> FALSE, of |-> of]
ReadyMsg == [type |-> "ready", content |-> EmptyText, resend |-> FALSE, of |-> None]

(* ------------------- MarkdownEditorProvider: helpers -------------------- *)
(* Faulty variants of _addToRecentFiles: without the filter, without the slice. *)
AddToRecentFilesNoFilter(recent, filePath) ==
    Take(<<filePath>> \o recent, MAX_RECENT_FILES)
AddToRecentFilesNoSlice(recent, filePath) ==
    <<filePath>> \o SelectSeqNe(recent, filePath)

(* _addToRecentFiles: filter out filePath, unshift it, slice(0, MAX).       *)
AddToRecentFiles(recent, filePath) ==
    Take(<<filePath>> \o SelectSeqNe(recent, filePath), MAX_RECENT_FILES)

(* Faulty clearTimeout: the pending timer is left armed.                     *)
ClearTimeoutNone(ts, h) == ts

(* clearTimeout(h): the timer with handle h, if still pending, is dropped.   *)
ClearTimeout(ts, h) == {tm \in ts : tm.id /= h}

(* setTimeout returns a handle equal to no pending timer's and not to h.     *)
TimerIdsOf(ts) == {tm.id : tm \in ts}
NewTimer(ts, h) == CHOOSE t \in TimerIds \ (TimerIdsOf(ts) \cup {h}) :
                       \A u \in TimerIds \ (TimerIdsOf(ts) \cup {h}) : t <= u

(* _autoSave's and saveFile's guard: a file is open.                         *)
HasFileUri(uri) == uri /= None

(* this._view?.webview.postMessage(msg) / if (this._view) postMessage(msg)   *)
PostToWebview(msg) == IF view THEN Append(toWebview, msg) ELSE toWebview
CanPost == ~view \/ Len(toWebview) < MaxQueue
CanRead == BagCardinality(pendingReads) < MaxReads
ReadOf(op, path) == SetToBag({[op |-> op, path |-> path, from |-> currentFileUri]})

(* ------------------------------ observation ----------------------------- *)
MruTouch(m, p) == <<p>> \o SelectSeqNe(m, p)
Requested == Range(mru) \cup {r.path : r \in BagToSet(pendingReads)}
CountReopen(p) == IF p \in Requested /\ reopens < MaxReopens THEN reopens + 1 ELSE reopens
Superseded(ts) == {[tm EXCEPT !.superseded = TRUE] : tm \in ts}
Did(act, msg) == lastAct' = act /\ shown' = msg /\ lastWrite' = NoWrite
Tag(p) == IF owner.track THEN p ELSE None

(* -------------------------------- Init ---------------------------------- *)
(* The provider is constructed; the workspace state is what an earlier      *)
(* session left: nothing, or path 1 as last file and only recent file.      *)
InitProvider ==
    /\ view = FALSE /\ currentFileUri = None /\ currentContent = EmptyText
    /\ autoSaveTimeout = None /\ timers = {}
    /\ lastFile \in {None, 1}
    /\ recentFiles = IF lastFile = None THEN <<>> ELSE <<lastFile>>
    /\ pendingReads = EmptyBag /\ pendingSaves = <<>>
    /\ toWebview = <<>> /\ toProvider = <<>>
InitWebview ==
    /\ hasFile = FALSE /\ isPreviewMode = FALSE /\ mermaidId = 0
    /\ editorValue = EmptyText /\ editorHidden = TRUE /\ previewHidden = TRUE
    /\ modeIndicator = "Edit" /\ preview = <<>> /\ passes = <<>>
InitObserved ==
    /\ lastAct = "" /\ shown = "" /\ lastWrite = NoWrite
    /\ burstWrites = 0 /\ mru = recentFiles
    /\ owner \in [track : BOOLEAN, mem : {None}, ed : {None}]
Init == InitProvider /\ InitWebview /\ InitObserved /\ reopens = MaxReopens /\ ~owner.track
InitRecent ==
    /\ InitProvider /\ lastFile = None /\ InitWebview /\ InitObserved
    /\ reopens = 0 /\ ~owner.track
InitWrites ==
    /\ InitProvider /\ lastFile = None /\ InitWebview /\ InitObserved
    /\ reopens = MaxReopens /\ owner.track

(* ---------------------- resolveWebviewView (19-52) ---------------------- *)
(* Sets _view and the html; the script runs and, at its end, posts 'ready'. *)
ResolveWebviewView ==
    /\ ~view
    /\ view' = TRUE
    /\ toProvider' = Append(toProvider, ReadyMsg)
    /\ Did("", "")
    /\ UNCHANGED <<currentFileUri, currentContent, autoSaveTimeout, timers, lastFile,
                   recentFiles, pendingReads, pendingSaves, toWebview, webview,
                   burstWrites, mru, reopens, owner>>

(* --------------------------- openFile (176-202) ------------------------- *)
(* The dialog is dismissed: fileUri is undefined.                           *)
OpenFileCancel ==
    /\ Did("", "")
    /\ UNCHANGED <<provider, channels, webview, burstWrites, mru, reopens, owner>>

(* A file is picked: _currentFileUri is assigned, then readFile is awaited. *)
OpenFilePick(p) ==
    /\ CanRead
    /\ currentFileUri' = p
    /\ pendingReads' = pendingReads (+) ReadOf("dialog", p)
    /\ reopens' = CountReopen(p)
    /\ Did("", "")
    /\ UNCHANGED <<view, currentContent, autoSaveTimeout, timers, lastFile, recentFiles,
                   pendingSaves, channels, webview, burstWrites, mru, owner>>

(* readFile resolves with the file's text: _currentContent, _saveLastFile,  *)
(* loadContent.                                                             *)
OpenFileReadOk(r, content) ==
    /\ BagIn(r, pendingReads) /\ r.op = "dialog"
    /\ CanPost
    /\ pendingReads' = pendingReads (-) SetToBag({r})
    /\ currentContent' = content
    /\ lastFile' = r.path
    /\ recentFiles' = AddToRecentFiles(recentFiles, r.path)
    /\ toWebview' = PostToWebview(LoadContent(content, Tag(r.path)))
    /\ owner' = [owner EXCEPT !.mem = Tag(r.path)]
    /\ mru' = MruTouch(mru, r.path)
    /\ timers' = Superseded(timers)
    /\ Did("", "")
    /\ UNCHANGED <<view, currentFileUri, autoSaveTimeout, pendingSaves,
                   toProvider, webview, burstWrites, reopens>>

(* readFile rejects: openFile has no try/catch, the rejection leaves it.    *)
OpenFileReadFail(r) ==
    /\ BagIn(r, pendingReads) /\ r.op = "dialog"
    /\ pendingReads' = pendingReads (-) SetToBag({r})
    /\ Did("openFileReadFailed", "")
    /\ UNCHANGED <<view, currentFileUri, currentContent, autoSaveTimeout, timers, lastFile,
                   recentFiles, pendingSaves, channels, webview,
                   burstWrites, mru, reopens, owner>>

(* ------------- showRecentFiles (111-132), _openFileByPath (134-153) ----- *)
ShowRecentFilesEmpty ==
    /\ recentFiles = <<>>
    /\ Did("", "No recent files")
    /\ UNCHANGED <<provider, channels, webview, burstWrites, mru, reopens, owner>>

ShowRecentFilesCancel ==
    /\ recentFiles /= <<>>
    /\ Did("", "")
    /\ UNCHANGED <<provider, channels, webview, burstWrites, mru, reopens, owner>>

(* An entry is selected: _openFileByPath awaits readFile.                   *)
ShowRecentFilesPick(p) ==
    /\ p \in Range(recentFiles)
    /\ CanRead
    /\ pendingReads' = pendingReads (+) ReadOf("recent", p)
    /\ reopens' = CountReopen(p)
    /\ Did("", "")
    /\ UNCHANGED <<view, currentFileUri, currentContent, autoSaveTimeout, timers, lastFile,
                   recentFiles, pendingSaves, channels, webview, burstWrites, mru, owner>>

(* Faulty _saveLastFile in _openFileByPath: the recent-files list is        *)
(* updated and the last-file pointer is not.                                *)
OpenFileByPathReadOkKeepLast(r, content) ==
    /\ BagIn(r, pendingReads) /\ r.op = "recent"
    /\ CanPost
    /\ pendingReads' = pendingReads (-) SetToBag({r})
    /\ currentFileUri' = r.path
    /\ currentContent' = content
    /\ recentFiles' = AddToRecentFiles(recentFiles, r.path)
    /\ toWebview' = PostToWebview(LoadContent(content, Tag(r.path)))
    /\ owner' = [owner EXCEPT !.mem = Tag(r.path)]
    /\ mru' = MruTouch(mru, r.path)
    /\ timers' = Superseded(timers)
    /\ Did("", "")
    /\ UNCHANGED <<view, autoSaveTimeout, lastFile, pendingSaves, toProvider, webview,
                   burstWrites, reopens>>

OpenFileByPathReadOk(r, content) ==
    /\ BagIn(r, pendingReads) /\ r.op = "recent"
    /\ CanPost
    /\ pendingReads' = pendingReads (-) SetToBag({r})
    /\ currentFileUri' = r.path
    /\ currentContent' = content
    /\ lastFile' = r.path
    /\ recentFiles' = AddToRecentFiles(recentFiles, r.path)
    /\ toWebview' = PostToWebview(LoadContent(content, Tag(r.path)))
    /\ owner' = [owner EXCEPT !.mem = Tag(r.path)]
    /\ mru' = MruTouch(mru, r.path)
    /\ timers' = Superseded(timers)
    /\ Did("", "")
    /\ UNCHANGED <<view, autoSaveTimeout, pendingSaves, toProvider, webview,
                   burstWrites, reopens>>

(* catch: showErrorMessage('Failed to open file: ...')                      *)
OpenFileByPathReadFail(r) ==
    /\ BagIn(r, pendingReads) /\ r.op = "recent"
    /\ pendingReads' = pendingReads (-) SetToBag({r})
    /\ Did("openFileByPathReadFailed", "Failed to open file")
    /\ UNCHANGED <<view, currentFileUri, currentContent, autoSaveTimeout, timers, lastFile,
                   recentFiles, pendingSaves, channels, webview,
                   burstWrites, mru, reopens, owner>>

(* ---------------- onDidReceiveMessage: contentChanged (33-38) ------------ *)
(* The rank of the change being handled in its burst: 1 when no timer is    *)
(* pending, else one more than the pending timer's (saturating).            *)
BurstRank ==
    IF timers = {} THEN 1
    ELSE LET k == Max({tm.k : tm \in timers})
         IN IF k < MaxBurst THEN k + 1 ELSE k

(* Faulty handler: the timer is re-armed but the event's text is not stored. *)
ReceiveContentChangedNoStore ==
    /\ toProvider /= <<>> /\ Head(toProvider).type = "contentChanged"
    /\ Cardinality(ClearTimeout(timers, autoSaveTimeout)) < MaxTimers
    /\ toProvider' = Tail(toProvider)
    /\ autoSaveTimeout' = NewTimer(ClearTimeout(timers, autoSaveTimeout), autoSaveTimeout)
    /\ timers' = ClearTimeout(timers, autoSaveTimeout)
                    \cup {[id |-> autoSaveTimeout', path |-> currentFileUri,
                           text |-> Head(toProvider).content, k |-> BurstRank,
                           superseded |-> FALSE]}
    /\ Did("", "")
    /\ UNCHANGED <<view, currentFileUri, currentContent, lastFile, recentFiles,
                   pendingReads, pendingSaves, toWebview, webview, burstWrites, mru,
                   reopens, owner>>

(* _currentContent = content; _scheduleAutoSave(): clearTimeout, setTimeout. *)
ReceiveContentChanged ==
    /\ toProvider /= <<>> /\ Head(toProvider).type = "contentChanged"
    /\ Cardinality(ClearTimeout(timers, autoSaveTimeout)) < MaxTimers
    /\ toProvider' = Tail(toProvider)
    /\ currentContent' = Head(toProvider).content
    /\ owner' = [owner EXCEPT !.mem = Head(toProvider).of]
    /\ autoSaveTimeout' = NewTimer(ClearTimeout(timers, autoSaveTimeout), autoSaveTimeout)
    /\ timers' = ClearTimeout(timers, autoSaveTimeout)
                    \cup {[id |-> autoSaveTimeout', path |-> currentFileUri,
                           text |-> Head(toProvider).content, k |-> BurstRank,
                           superseded |-> FALSE]}
    /\ Did("", "")
    /\ UNCHANGED <<view, currentFileUri, lastFile, recentFiles, pendingReads, pendingSaves,
                   toWebview, webview, burstWrites, mru, reopens>>

(* --------------- _restoreContent (54-66), _loadLastFile (68-89) ---------- *)
(* Either the in-memory text is re-sent, or _loadLastFile starts: when a    *)
(* last-file path is stored its read is awaited.                            *)
RestoreContent ==
    IF currentFileUri /= None /\ currentContent /= EmptyText
    THEN /\ CanPost
         /\ toWebview' = PostToWebview(ResendContent(currentContent, owner.mem))
         /\ UNCHANGED pendingReads
    ELSE /\ lastFile /= None => CanRead
         /\ pendingReads' = IF lastFile /= None
                            THEN pendingReads (+) ReadOf("last", lastFile)
                            ELSE pendingReads
         /\ UNCHANGED toWebview

ReceiveReady ==
    /\ toProvider /= <<>> /\ Head(toProvider).type = "ready"
    /\ toProvider' = Tail(toProvider)
    /\ RestoreContent
    /\ Did("", "")
    /\ UNCHANGED <<view, currentFileUri, currentContent, autoSaveTimeout, timers, lastFile,
                   recentFiles, pendingSaves, webview, burstWrites, mru, reopens, owner>>

(* onDidChangeVisibility (47-51) with the view visible and a file open.     *)
VisibilityRestored ==
    /\ view /\ currentFileUri /= None
    /\ RestoreContent
    /\ Did("", "")
    /\ UNCHANGED <<view, currentFileUri, currentContent, autoSaveTimeout, timers, lastFile,
                   recentFiles, pendingSaves, toProvider, webview,
                   burstWrites, mru, reopens, owner>>

LoadLastFileReadOk(r, content) ==
    /\ BagIn(r, pendingReads) /\ r.op = "last"
    /\ CanPost
    /\ pendingReads' = pendingReads (-) SetToBag({r})
    /\ currentFileUri' = r.path
    /\ currentContent' = content
    /\ toWebview' = PostToWebview(LoadContent(content, Tag(r.path)))
    /\ owner' = [owner EXCEPT !.mem = Tag(r.path)]
    /\ timers' = Superseded(timers)
    /\ Did("", "")
    /\ UNCHANGED <<view, autoSaveTimeout, lastFile, recentFiles, pendingSaves,
                   toProvider, webview, burstWrites, mru, reopens>>

(* Faulty catch: the stored pointer is kept.                                *)
LoadLastFileReadFailKeep(r) ==
    /\ BagIn(r, pendingReads) /\ r.op = "last"
    /\ pendingReads' = pendingReads (-) SetToBag({r})
    /\ Did("loadLastFileReadFailed", "")
    /\ UNCHANGED <<view, currentFileUri, currentContent, autoSaveTimeout, timers, lastFile,
                   recentFiles, pendingSaves, channels, webview,
                   burstWrites, mru, reopens, owner>>

(* catch: workspaceState.update(LAST_FILE_KEY, undefined)                   *)
LoadLastFileReadFail(r) ==
    /\ BagIn(r, pendingReads) /\ r.op = "last"
    /\ pendingReads' = pendingReads (-) SetToBag({r})
    /\ lastFile' = None
    /\ Did("loadLastFileReadFailed", "")
    /\ UNCHANGED <<view, currentFileUri, currentContent, autoSaveTimeout, timers,
                   recentFiles, pendingSaves, channels, webview,
                   burstWrites, mru, reopens, owner>>

(* ------------------ the timer fires: _autoSave (164-174) ---------------- *)
(* No file is open: return.  (No reachable state takes this branch: a      *)
(* timer is armed by a contentChanged event only, the editor that sends    *)
(* those is shown by loadContent only, and loadContent is posted only once *)
(* _currentFileUri is set, which nothing resets.)                          *)
AutoSaveSkip(tm) ==
    /\ tm \in timers
    /\ ~HasFileUri(currentFileUri)
    /\ timers' = timers \ {tm}
    /\ Did("autoSaveSkip", "")
    /\ UNCHANGED <<view, currentFileUri, currentContent, autoSaveTimeout, lastFile,
                   recentFiles, pendingReads, pendingSaves, channels, webview,
                   burstWrites, mru, reopens, owner>>

(* Faulty expiry: the timer is consumed and nothing is written.             *)
AutoSaveNoWrite(tm, ok) ==
    /\ tm \in timers
    /\ HasFileUri(currentFileUri)
    /\ timers' = timers \ {tm}
    /\ Did("autoSave", "")
    /\ UNCHANGED <<view, currentFileUri, currentContent, autoSaveTimeout, lastFile,
                   recentFiles, pendingReads, pendingSaves, channels, webview,
                   burstWrites, mru, reopens, owner>>

(* Faulty expiry: a rejected write is reported to the user.                 *)
AutoSaveNotify(tm, ok) ==
    /\ tm \in timers
    /\ HasFileUri(currentFileUri)
    /\ timers' = timers \ {tm}
    /\ lastAct' = "autoSave" /\ shown' = IF ok THEN "" ELSE "Failed to save file"
    /\ lastWrite' = [kind |-> "auto", path |-> currentFileUri, text |-> currentContent,
                     ok |-> ok, by |-> tm,
                     nth |-> IF burstWrites < 2 THEN burstWrites + 1 ELSE burstWrites,
                     afterFailedSave |-> lastAct = "saveFileFailed"]
    /\ burstWrites' = IF timers' = {} THEN 0 ELSE lastWrite'.nth
    /\ UNCHANGED <<view, currentFileUri, currentContent, autoSaveTimeout, lastFile,
                   recentFiles, pendingReads, pendingSaves, channels, webview,
                   mru, reopens, owner>>

(* writeFile(_currentFileUri, _currentContent); a rejection is swallowed.   *)
(* burstWrites counts the writes of one burst: it restarts when no timer is *)
(* left pending, since the next change then begins a new burst.             *)
AutoSave(tm, ok) ==
    /\ tm \in timers
    /\ HasFileUri(currentFileUri)
    /\ timers' = timers \ {tm}
    /\ lastAct' = "autoSave" /\ shown' = ""
    /\ lastWrite' = [kind |-> "auto", path |-> currentFileUri, text |-> currentContent,
                     ok |-> ok, by |-> tm,
                     nth |-> IF burstWrites < 2 THEN burstWrites + 1 ELSE burstWrites,
                     afterFailedSave |-> lastAct = "saveFileFailed"]
    /\ burstWrites' = IF timers' = {} THEN 0 ELSE lastWrite'.nth
    /\ UNCHANGED <<view, currentFileUri, currentContent, autoSaveTimeout, lastFile,
                   recentFiles, pendingReads, pendingSaves, channels, webview,
                   mru, reopens, owner>>

(* --------------------------- saveFile (204-217) ------------------------- *)
SaveFileNoFile ==
    /\ ~HasFileUri(currentFileUri)
    /\ Did("", "No file is currently open")
    /\ UNCHANGED <<provider, channels, webview, burstWrites, mru, reopens, owner>>

(* writeFile is issued and awaited.                                         *)
SaveFile(ok) ==
    /\ HasFileUri(currentFileUri)
    /\ Len(pendingSaves) < MaxSaves
    /\ pendingSaves' = Append(pendingSaves, ok)
    /\ lastAct' = "" /\ shown' = ""
    /\ lastWrite' = [kind |-> "manual", path |-> currentFileUri, text |-> currentContent,
                     ok |-> ok, by |-> NoTimer, nth |-> 0, afterFailedSave |-> FALSE]
    /\ UNCHANGED <<view, currentFileUri, currentContent, autoSaveTimeout, timers, lastFile,
                   recentFiles, pendingReads, channels, webview, burstWrites, mru, reopens, owner>>

(* Faulty saveFile: a rejected write is swallowed.                          *)
SaveFileSettledSilent ==
    /\ pendingSaves /= <<>>
    /\ pendingSaves' = Tail(pendingSaves)
    /\ IF Head(pendingSaves)
       THEN Did("", "Saved")
       ELSE Did("saveFileFailed", "")
    /\ UNCHANGED <<view, currentFileUri, currentContent, autoSaveTimeout, timers, lastFile,
                   recentFiles, pendingReads, channels, webview,
                   burstWrites, mru, reopens, owner>>

(* The write settles: an information or an error message is shown.          *)
SaveFileSettled ==
    /\ pendingSaves /= <<>>
    /\ pendingSaves' = Tail(pendingSaves)
    /\ IF Head(pendingSaves)
       THEN Did("", "Saved")
       ELSE Did("saveFileFailed", "Failed to save file")
    /\ UNCHANGED <<view, currentFileUri, currentContent, autoSaveTimeout, timers, lastFile,
                   recentFiles, pendingReads, channels, webview,
                   burstWrites, mru, reopens, owner>>

(* ------------------------- togglePreview (219-225) ---------------------- *)
TogglePreview ==
    /\ CanPost
    /\ toWebview' = PostToWebview(ToggleMsg)
    /\ Did("", "")
    /\ UNCHANGED <<provider, toProvider, webview, burstWrites, mru, reopens, owner>>

(* ============================ webview script ============================ *)
(* preview.innerHTML holds one region per diagram block: [gen, id, fill,    *)
(* own].  gen names the renderPreview call whose innerHTML assignment       *)
(* created the element (an element of a replaced innerHTML is detached), id *)
(* is the number n of its DOM id 'mermaid-n', fill is "empty", "svg" or     *)
(* "error", and own tells whether the call that filled it is the call that  *)
(* created it.  A running renderPreview call is [gen, ids, idx, elem, n]:   *)
(* its blocks' ids, the block whose render it awaits, the generation of the *)
(* element it holds for that block, and the number of blocks it rendered.   *)
Gens == 1..(2 * MaxPasses + 1)
UsedGens == {preview[i].gen : i \in 1..Len(preview)}
                \cup {passes[i].gen : i \in 1..Len(passes)}
                \cup {passes[i].elem : i \in 1..Len(passes)}
NewGen == CHOOSE g \in Gens \ UsedGens : \A h \in Gens \ UsedGens : g <= h

(* The mermaid blocks of a text, in document order (the regex's matches).   *)
MermaidBlocks(text) == SelectSeq(text, LAMBDA b : b = "m")

(* text.replace(mermaidRegex, ...): the k-th match gets id counter + k - 1. *)
ExtractIds(text, counter) ==
    [k \in 1..Len(MermaidBlocks(text)) |-> counter + k - 1]
Placeholders(ids, gen) ==
    [k \in 1..Len(ids) |-> [gen |-> gen, id |-> ids[k], fill |-> "empty", own |-> TRUE]]

(* document.getElementById('mermaid-' + id): the generation of the first    *)
(* attached element with that id, 0 when there is none.                     *)
FindElement(dom, id) ==
    IF \E i \in 1..Len(dom) : dom[i].id = id
    THEN dom[CHOOSE i \in 1..Len(dom) :
                 dom[i].id = id /\ \A j \in 1..Len(dom) : dom[j].id = id => i <= j].gen
    ELSE 0

(* for (const block of mermaidBlocks): the first block at or after `from`   *)
(* whose element exists (the others are skipped by `continue`), 0 if none.  *)
NextBlock(dom, ids, from) ==
    IF \E k \in from..Len(ids) : FindElement(dom, ids[k]) /= 0
    THEN CHOOSE k \in from..Len(ids) :
             /\ FindElement(dom, ids[k]) /= 0
             /\ \A j \in from..Len(ids) : FindElement(dom, ids[j]) /= 0 => k <= j
    ELSE 0

(* element.innerHTML = ...: fills the element when it is still attached.    *)
FillElement(dom, gen, id, fill, by) ==
    [i \in 1..Len(dom) |->
        IF dom[i].gen = gen /\ dom[i].id = id
        THEN [dom[i] EXCEPT !.fill = fill, !.own = (by = gen)]
        ELSE dom[i]]

RemoveAt(s, i) == SubSeq(s, 1, i - 1) \o SubSeq(s, i + 1, Len(s))

(* ---------------------- editor 'input' listener (522-527) --------------- *)
Input(t) ==
    /\ ~editorHidden
    /\ t /= editorValue
    /\ Len(toProvider) < MaxQueue
    /\ editorValue' = t
    /\ toProvider' = Append(toProvider, ContentChanged(t, owner.ed))
    /\ Did("", "")
    /\ UNCHANGED <<provider, toWebview, hasFile, isPreviewMode, mermaidId, editorHidden,
                   previewHidden, modeIndicator, preview, passes,
                   burstWrites, mru, reopens, owner>>

(* ---------------- message listener: loadContent (594-605) --------------- *)
(* Faulty listener: the mode flag is left as it was.                        *)
WebviewLoadContentKeepMode ==
    /\ toWebview /= <<>> /\ Head(toWebview).type = "loadContent"
    /\ toWebview' = Tail(toWebview)
    /\ editorHidden' = FALSE
    /\ previewHidden' = TRUE
    /\ preview' = <<>>
    /\ mermaidId' = 0
    /\ editorValue' = Head(toWebview).content
    /\ owner' = [owner EXCEPT !.ed = Head(toWebview).of]
    /\ hasFile' = TRUE
    /\ modeIndicator' = "Edit"
    /\ Did(IF isPreviewMode THEN "loadFromPreview" ELSE "", "")
    /\ UNCHANGED <<provider, toProvider, isPreviewMode, passes, burstWrites, mru, reopens>>

WebviewLoadContent ==
    /\ toWebview /= <<>> /\ Head(toWebview).type = "loadContent"
    /\ toWebview' = Tail(toWebview)
    /\ editorHidden' = FALSE
    /\ previewHidden' = TRUE
    /\ preview' = <<>>
    /\ mermaidId' = 0
    /\ editorValue' = Head(toWebview).content
    /\ owner' = [owner EXCEPT !.ed = Head(toWebview).of]
    /\ hasFile' = TRUE
    /\ isPreviewMode' = FALSE
    /\ modeIndicator' = "Edit"
    /\ Did(IF isPreviewMode THEN "loadFromPreview" ELSE "", "")
    /\ UNCHANGED <<provider, toProvider, passes, burstWrites, mru, reopens>>

(* ------- message listener: togglePreview (606-611), updateView (576-589) - *)
(* Faulty listener: the mode is flipped although no file is loaded.         *)
WebviewToggleNoGuard ==
    /\ toWebview /= <<>> /\ Head(toWebview).type = "togglePreview"
    /\ ~hasFile
    /\ toWebview' = Tail(toWebview)
    /\ isPreviewMode' = ~isPreviewMode
    /\ previewHidden' = FALSE
    /\ Did("toggleNoFile", "")
    /\ UNCHANGED <<provider, toProvider, hasFile, mermaidId, editorValue, editorHidden,
                   modeIndicator, preview, passes, burstWrites, mru, reopens, owner>>

(* No file: the message is dropped.                                         *)
WebviewToggleNoFile ==
    /\ toWebview /= <<>> /\ Head(toWebview).type = "togglePreview"
    /\ ~hasFile
    /\ toWebview' = Tail(toWebview)
    /\ Did("toggleNoFile", "")
    /\ UNCHANGED <<provider, toProvider, webview, burstWrites, mru, reopens, owner>>

(* Preview -> Edit: updateView's else branch.                               *)
WebviewToggleToEdit ==
    /\ toWebview /= <<>> /\ Head(toWebview).type = "togglePreview"
    /\ hasFile /\ isPreviewMode
    /\ toWebview' = Tail(toWebview)
    /\ isPreviewMode' = FALSE
    /\ previewHidden' = TRUE
    /\ editorHidden' = FALSE
    /\ modeIndicator' = "Edit"
    /\ Did("", "")
    /\ UNCHANGED <<provider, toProvider, hasFile, mermaidId, editorValue, preview, passes,
                   burstWrites, mru, reopens, owner>>

(* Edit -> Preview: renderPreview(editor.value) runs to its first await, or *)
(* to its end when the text has no mermaid block; updateView then sets the  *)
(* mode indicator.                                                          *)
WebviewToggleToPreview ==
    /\ toWebview /= <<>> /\ Head(toWebview).type = "togglePreview"
    /\ hasFile /\ ~isPreviewMode
    /\ Len(passes) < MaxPasses
    /\ mermaidId + Len(MermaidBlocks(editorValue)) <= MaxMermaidId
    /\ toWebview' = Tail(toWebview)
    /\ isPreviewMode' = TRUE
    /\ editorHidden' = TRUE
    /\ previewHidden' = FALSE
    /\ LET ids == ExtractIds(editorValue, mermaidId)
           gen == NewGen
       IN /\ mermaidId' = mermaidId + Len(ids)
          /\ preview' = Placeholders(ids, gen)
          /\ IF Len(ids) = 0
             THEN /\ modeIndicator' = "Preview"
                  /\ UNCHANGED passes
             ELSE /\ passes' = Append(passes, [gen |-> gen, ids |-> ids,
                                               idx |-> 1, elem |-> gen, n |-> 1])
                  /\ UNCHANGED modeIndicator
    /\ Did("", "")
    /\ UNCHANGED <<provider, toProvider, hasFile, editorValue,
                   burstWrites, mru, reopens, owner>>

(* ------------- renderPreview: mermaid.render settles (554-573) ---------- *)
(* The awaited block's element is filled with the svg or the error block;   *)
(* the loop goes on to the next block whose element exists, or the pass     *)
(* ends and updateView sets the mode indicator to 'Preview'.                *)
(* Faulty loop without the try/catch: a failed render ends the pass.        *)
MermaidSettledAbort(i, ok) ==
    /\ i \in 1..Len(passes)
    /\ LET pass == passes[i]
           dom  == IF ok THEN FillElement(preview, pass.elem, pass.ids[pass.idx],
                                          "svg", pass.gen)
                         ELSE preview
           next == IF ok THEN NextBlock(dom, pass.ids, pass.idx + 1) ELSE 0
       IN /\ preview' = dom
          /\ IF next = 0
             THEN /\ passes' = RemoveAt(passes, i)
                  /\ IF ok THEN modeIndicator' = "Preview" ELSE UNCHANGED modeIndicator
             ELSE /\ passes' = [passes EXCEPT ![i] =
                                  [pass EXCEPT !.idx = next,
                                               !.elem = FindElement(dom, pass.ids[next]),
                                               !.n = pass.n + 1]]
                  /\ UNCHANGED modeIndicator
    /\ Did("", "")
    /\ UNCHANGED <<provider, channels, hasFile, isPreviewMode, mermaidId, editorValue,
                   editorHidden, previewHidden, burstWrites, mru, reopens, owner>>

MermaidSettled(i, ok) ==
    /\ i \in 1..Len(passes)
    /\ LET pass == passes[i]
           dom  == FillElement(preview, pass.elem, pass.ids[pass.idx],
                               IF ok THEN "svg" ELSE "error", pass.gen)
           next == NextBlock(dom, pass.ids, pass.idx + 1)
       IN /\ preview' = dom
          /\ IF next = 0
             THEN /\ passes' = RemoveAt(passes, i)
                  /\ modeIndicator' = "Preview"
             ELSE /\ passes' = [passes EXCEPT ![i] =
                                  [pass EXCEPT !.idx = next,
                                               !.elem = FindElement(dom, pass.ids[next]),
                                               !.n = pass.n + 1]]
                  /\ UNCHANGED modeIndicator
    /\ Did("", "")
    /\ UNCHANGED <<provider, channels, hasFile, isPreviewMode, mermaidId, editorValue,
                   editorHidden, previewHidden, burstWrites, mru, reopens, owner>>

(* ============================ specifications ============================ *)
(* The document session: opens, restores, edits, auto-save and manual save; *)
(* the user leaves the view in Edit mode.                                   *)
Next ==
    \/ ResolveWebviewView
    \/ OpenFileCancel
    \/ \E p \in Paths : OpenFilePick(p)
    \/ \E r \in BagToSet(pendingReads), c \in ProseTexts : OpenFileReadOk(r, c)
    \/ \E r \in BagToSet(pendingReads) : OpenFileReadFail(r)
    \/ ShowRecentFilesEmpty
    \/ ShowRecentFilesCancel
    \/ \E p \in Paths : ShowRecentFilesPick(p)
    \/ \E r \in BagToSet(pendingReads), c \in ProseTexts : OpenFileByPathReadOk(r, c)
    \/ \E r \in BagToSet(pendingReads) : OpenFileByPathReadFail(r)
    \/ ReceiveContentChanged
    \/ ReceiveReady
    \/ VisibilityRestored
    \/ \E r \in BagToSet(pendingReads), c \in ProseTexts : LoadLastFileReadOk(r, c)
    \/ \E r \in BagToSet(pendingReads) : LoadLastFileReadFail(r)
    \/ \E tm \in timers, ok \in BOOLEAN : AutoSave(tm, ok)
    \/ SaveFileNoFile
    \/ \E ok \in BOOLEAN : SaveFile(ok)
    \/ SaveFileSettled
    \/ \E t \in ProseTexts : Input(t)
    \/ WebviewLoadContent

Spec == Init /\ [][Next]_vars

(* The session from a fresh install, without manual saves, when every read  *)
(* and the user's picks succeed.  An armed timer that is not cleared fires  *)
(* when its delay has elapsed, and the event loop runs every continuation   *)
(* and delivers every message: weak fairness of those steps.  The user may  *)
(* stop at any time.                                                        *)
InitFair == Init /\ lastFile = None
NextFair ==
    \/ ResolveWebviewView
    \/ \E p \in Paths : OpenFilePick(p)
    \/ \E r \in BagToSet(pendingReads), c \in ProseTexts : OpenFileReadOk(r, c)
    \/ \E p \in Paths : ShowRecentFilesPick(p)
    \/ \E r \in BagToSet(pendingReads), c \in ProseTexts : OpenFileByPathReadOk(r, c)
    \/ ReceiveContentChanged
    \/ ReceiveReady
    \/ \E r \in BagToSet(pendingReads), c \in ProseTexts : LoadLastFileReadOk(r, c)
    \/ \E tm \in timers, ok \in BOOLEAN : AutoSave(tm, ok)
    \/ \E t \in ProseTexts : Input(t)
    \/ WebviewLoadContent

Fire(i) == \E tm \in timers, ok \in BOOLEAN : tm.id = i /\ AutoSave(tm, ok)
(* An awaited read settles; a posted message is delivered.                  *)
ReadSettles ==
    \E r \in BagToSet(pendingReads), c \in ProseTexts :
        OpenFileReadOk(r, c) \/ OpenFileByPathReadOk(r, c) \/ LoadLastFileReadOk(r, c)
FairSpec ==
    /\ InitFair /\ [][NextFair]_vars
    /\ \A i \in TimerIds : WF_vars(Fire(i))
    /\ WF_vars(ReadSettles)
    /\ WF_vars(ReceiveContentChanged) /\ WF_vars(ReceiveReady)
    /\ WF_vars(WebviewLoadContent)

(* The view: loads, edits and preview toggles of documents without diagram  *)
(* blocks; the quiet period of the auto-save timer does not elapse.         *)
NextView ==
    \/ ResolveWebviewView
    \/ \E p \in Paths : OpenFilePick(p)
    \/ \E r \in BagToSet(pendingReads), c \in ProseTexts : OpenFileReadOk(r, c)
    \/ ReceiveContentChanged
    \/ ReceiveReady
    \/ TogglePreview
    \/ \E t \in ProseTexts : Input(t)
    \/ WebviewLoadContent
    \/ WebviewToggleNoFile
    \/ WebviewToggleToEdit
    \/ WebviewToggleToPreview

SpecView == Init /\ [][NextView]_vars

(* Writes: opens by dialog and from the recent files, edits, auto-save and  *)
(* manual save from a fresh install when every read succeeds; the owner of  *)
(* each text is followed.                                                   *)
NextWrites ==
    \/ ResolveWebviewView
    \/ \E p \in Paths : OpenFilePick(p)
    \/ \E r \in BagToSet(pendingReads), c \in ProseTexts : OpenFileReadOk(r, c)
    \/ \E p \in Paths : ShowRecentFilesPick(p)
    \/ \E r \in BagToSet(pendingReads), c \in ProseTexts : OpenFileByPathReadOk(r, c)
    \/ ReceiveContentChanged
    \/ ReceiveReady
    \/ VisibilityRestored
    \/ \E r \in BagToSet(pendingReads), c \in ProseTexts : LoadLastFileReadOk(r, c)
    \/ \E tm \in timers, ok \in BOOLEAN : AutoSave(tm, ok)
    \/ \E ok \in BOOLEAN : SaveFile(ok)
    \/ SaveFileSettled
    \/ \E t \in ProseTexts : Input(t)
    \/ WebviewLoadContent

SpecWrites == InitWrites /\ [][NextWrites]_vars

(* Rendering: documents with diagram blocks are loaded and the preview is   *)
(* toggled while earlier render passes may still await a diagram; the text  *)
(* is not edited.                                                           *)
NextRender ==
    \/ ResolveWebviewView
    \/ \E p \in {1} : OpenFilePick(p)
    \/ \E r \in BagToSet(pendingReads), c \in DiagramTexts : OpenFileReadOk(r, c)
    \/ ReceiveReady
    \/ TogglePreview
    \/ WebviewLoadContent
    \/ WebviewToggleToEdit
    \/ WebviewToggleToPreview
    \/ \E i \in 1..MaxPasses, ok \in BOOLEAN : MermaidSettled(i, ok)

SpecRender == InitFair /\ [][NextRender]_vars

(* Recent files: distinct paths are opened one after the other, each open   *)
(* running to completion; paths are numbered in the order of their first    *)
(* open, and at most MaxReopens opens name a path opened before.            *)
Fresh == 1 + Max(Requested \cup {0})
RecentChoice == {p \in RecentPaths : p = Fresh \/ (p \in Requested /\ reopens < MaxReopens)}

NextRecent ==
    \/ ShowRecentFilesEmpty
    \/ \E p \in RecentChoice : OpenFilePick(p)
    \/ \E r \in BagToSet(pendingReads), c \in {<<"p">>} : OpenFileReadOk(r, c)
    \/ \E p \in RecentChoice : ShowRecentFilesPick(p)
    \/ \E r \in BagToSet(pendingReads), c \in {<<"p">>} : OpenFileByPathReadOk(r, c)

SpecRecent == InitRecent /\ [][NextRecent]_vars

(* ================================ claims ================================ *)
NoDuplicates(list) == \A i, j \in 1..Len(list) : list[i] = list[j] => i = j

(* C1: after any sequence of successful opens the recent-files list holds   *)
(* no path twice and the path opened most recently is at index 0; opening   *)
(* the same path twice in a row leaves it in the list once, at index 0.     *)
C1_RecentUniqueMruFirst ==
    /\ NoDuplicates(recentFiles)
    /\ mru /= <<>> => (recentFiles /= <<>> /\ recentFiles[1] = mru[1])
    /\ Range(recentFiles) \subseteq Range(mru)

(* Only one path was ever requested, it was opened again, and every open    *)
(* has completed: the same path was opened twice in a row.                  *)
C1_Witness ==
    /\ pendingReads = EmptyBag
    /\ reopens >= 1
    /\ mru = <<1>>
    /\ recentFiles = <<1>>

(* C2: the recent-files list never holds more than MAX_RECENT_FILES paths:  *)
(* it is the MAX most recently opened paths, most recent first, so after    *)
(* MAX+1 opens of pairwise distinct paths the oldest has been evicted.      *)
C2_RecentBounded ==
    /\ Len(recentFiles) <= MAX_RECENT_FILES
    /\ recentFiles = Take(mru, MAX_RECENT_FILES)

(* MAX+1 pairwise distinct paths were opened and none twice.                *)
C2_Witness ==
    /\ pendingReads = EmptyBag
    /\ reopens = 0
    /\ Len(mru) = MAX_RECENT_FILES + 1
    /\ Len(recentFiles) = MAX_RECENT_FILES
    /\ mru[MAX_RECENT_FILES + 1] \notin Range(recentFiles)
    /\ recentFiles = SubSeq(mru, 1, MAX_RECENT_FILES)

(* ------------------------------ auto-save ------------------------------- *)
AutoWrite == lastWrite.kind = "auto"
(* The step taken removes a timer without arming one: that timer fired.     *)
TimerFired == TimerIdsOf(timers') /= TimerIdsOf(timers)
                  /\ TimerIdsOf(timers') \subseteq TimerIdsOf(timers)

(* C3 as stated: k >= 1 contentChanged events, each arriving before the     *)
(* timer of the previous one expires, result in exactly one write, which    *)
(* carries the text of the last of the k events.                            *)
C3_Original ==
    AutoWrite => /\ lastWrite.nth = 1
                 /\ lastWrite.text = lastWrite.by.text

(* C3 amended: the burst results in exactly one write, issued by the timer  *)
(* of its last event once no other timer is pending; it carries the         *)
(* in-memory text at expiry, which is the text of the last event unless an  *)
(* open or restore replaced the text after that event.                      *)
C3_OneWritePerBurst ==
    AutoWrite => /\ lastWrite.nth = 1
                 /\ lastWrite.by.id = autoSaveTimeout
                 /\ timers = {}
                 /\ lastWrite.text = currentContent
                 /\ ~lastWrite.by.superseded => lastWrite.text = lastWrite.by.text

(* A burst of at least two events has ended in its one write.               *)
C3_Witness ==
    /\ AutoWrite
    /\ lastWrite.by.k >= 2
    /\ ~lastWrite.by.superseded
    /\ lastWrite.nth = 1
    /\ lastWrite.text = lastWrite.by.text

(* The timer of handle h is pending and is the one armed last: it carries   *)
(* the text T of the contentChanged event handled last and the path P open  *)
(* when that event arrived.                                                 *)
Owed(h) == h /= None /\ h = autoSaveTimeout /\ h \in TimerIdsOf(timers)
(* A further contentChanged event has arrived: it armed a timer, and a new  *)
(* timer's handle differs from the handle held before.                      *)
NewerChange(h) == autoSaveTimeout /= h
(* The timer of handle h has expired and a write of T to P was attempted.   *)
WroteOwed(h) ==
    /\ AutoWrite /\ lastWrite.by.id = h
    /\ lastWrite.path = lastWrite.by.path /\ lastWrite.text = lastWrite.by.text
(* The timer of handle h has expired after an open or restore changed the   *)
(* session's path or replaced its text.                                     *)
WroteReplaced(h) ==
    /\ AutoWrite /\ lastWrite.by.id = h
    /\ (lastWrite.by.superseded \/ lastWrite.path /= lastWrite.by.path)

C5_AtMostOneTimer ==
    /\ Cardinality(timers) <= 1
    /\ \A tm \in timers : tm.id = autoSaveTimeout
    /\ AutoWrite => lastWrite.by.id = autoSaveTimeout

(* A contentChanged event was handled while a timer was pending.            *)
C5_Witness == \E tm \in timers : tm.k >= 2

(* ------------------------------- failures ------------------------------- *)
(* C6: when the read fails during an open (file dialog or recent files), a  *)
(* failure message is shown and the session's path and text are what they   *)
(* were before the open was requested.                                      *)
C6_OpenFailurePreservesState ==
    [][\A r \in BagToSet(pendingReads) :
          (/\ lastAct' \in {"openFileReadFailed", "openFileByPathReadFailed"}
           /\ pendingReads' = pendingReads (-) SetToBag({r}))
          => /\ shown' = "Failed to open file"
             /\ currentFileUri' = r.from
             /\ currentContent' = currentContent]_vars

(* C7: a manual save whose write fails shows a failure notification and     *)
(* leaves text and path unchanged; a timer that expires afterwards still    *)
(* attempts a write of the in-memory text.                                  *)
C7_ManualSaveFailure ==
    [][/\ (pendingSaves /= <<>> /\ pendingSaves' = Tail(pendingSaves)
              /\ ~Head(pendingSaves))
          => /\ shown' = "Failed to save file"
             /\ currentFileUri' = currentFileUri
             /\ currentContent' = currentContent
             /\ timers' = timers
       /\ TimerFired
          => /\ lastWrite'.kind = "auto"
             /\ lastWrite'.path = currentFileUri
             /\ lastWrite'.text = currentContent]_vars

(* A manual save failed, and the step after its failure notification was    *)
(* the expiry of the timer, which attempted a write of the unchanged text.  *)
C7_Witness ==
    /\ AutoWrite
    /\ lastWrite.afterFailedSave
    /\ lastWrite.text = currentContent

(* C8: a write failure during an auto-save shows nothing, changes neither   *)
(* text nor path, and leaves the scheduler usable: a later contentChanged   *)
(* event arms a timer, whose expiry attempts a write again.                 *)
C8_AutoSaveFailureSilent ==
    [][/\ (lastWrite'.kind = "auto" /\ ~lastWrite'.ok)
          => /\ shown' = ""
             /\ currentFileUri' = currentFileUri
             /\ currentContent' = currentContent
             /\ pendingSaves' = pendingSaves
       /\ (toProvider /= <<>> /\ Head(toProvider).type = "contentChanged"
              /\ toProvider' = Tail(toProvider))
          => \E tm \in timers' : tm.id = autoSaveTimeout' /\ tm.text = currentContent'
       /\ (TimerFired /\ currentFileUri /= None) => lastWrite'.kind = "auto"]_vars

(* The write of an auto-save has failed.                                    *)
C8_Witness == AutoWrite /\ ~lastWrite.ok /\ shown = "" /\ currentFileUri /= None

(* C9: when restoring the last file and the stored path cannot be read, the *)
(* stored pointer is cleared, no message is shown, no loadContent is sent,  *)
(* and the session's path and text stay as they were.                       *)
C9_RestoreFailure ==
    [][lastAct' = "loadLastFileReadFailed"
          => /\ lastFile' = None
             /\ shown' = ""
             /\ toWebview' = toWebview
             /\ currentFileUri' = currentFileUri
             /\ currentContent' = currentContent]_vars

(* The restore after a restart failed with nothing loaded: the empty state. *)
C9_Witness ==
    /\ lastAct = "loadLastFileReadFailed"
    /\ lastFile = None
    /\ currentFileUri = None /\ currentContent = EmptyText
    /\ ~hasFile /\ toWebview = <<>>

(* --------------------------------- view --------------------------------- *)
(* C10: the view is in Preview mode only while a document is loaded, and a  *)
(* toggle request received while no document is loaded changes nothing.     *)
C10_PreviewOnlyWhenLoaded ==
    /\ [](isPreviewMode => (hasFile /\ currentFileUri /= None))
    /\ [][lastAct' = "toggleNoFile" => UNCHANGED webview]_vars

(* A toggle request was received while no document was loaded.              *)
C10_Witness == lastAct = "toggleNoFile" /\ ~hasFile /\ ~isPreviewMode

(* C11: every load, from whatever state it starts, ends with the view in    *)
(* Edit mode, the document marked loaded, and the displayed text equal to   *)
(* the loaded text; the session's text is the text read, and that is the    *)
(* text sent to the view.                                                   *)
C11_LoadResetsView ==
    [][/\ (toWebview /= <<>> /\ Head(toWebview).type = "loadContent"
              /\ toWebview' = Tail(toWebview))
          => /\ ~isPreviewMode' /\ modeIndicator' = "Edit"
             /\ ~editorHidden' /\ previewHidden' /\ preview' = <<>>
             /\ hasFile'
             /\ editorValue' = Head(toWebview).content
       /\ (Len(toWebview') > Len(toWebview)
              /\ toWebview'[Len(toWebview')].type = "loadContent")
          => /\ toWebview'[Len(toWebview')].content = currentContent'
             /\ currentFileUri' /= None]_vars

(* A load of a non-empty text was processed while the view was in Preview   *)
(* mode.                                                                    *)
C11_Witness ==
    /\ lastAct = "loadFromPreview"
    /\ hasFile /\ ~isPreviewMode /\ modeIndicator = "Edit"
    /\ editorValue = <<"p">>

(* ------------------------------ rendering ------------------------------- *)
(* The step ends the i-th running render pass.                              *)
PassEnds(i) == i \in 1..Len(passes) /\ passes' = RemoveAt(passes, i)
(* The placeholders the pass created are the content of the preview.        *)
Displayed(pass) == \E k \in 1..Len(preview) : preview[k].gen = pass.gen
Resolved(dom, pass) ==
    /\ Len(dom) = Len(pass.ids)
    /\ \A k \in 1..Len(dom) : /\ dom[k].gen = pass.gen /\ dom[k].id = pass.ids[k]
                                /\ dom[k].fill \in {"svg", "error"}

(* C13 as stated: when a render pass over a text with N diagram blocks      *)
(* finishes, all N blocks have settled and each of the N regions holds      *)
(* success markup or an error block, whichever blocks fail.  (A region     *)
(* that is no longer in the preview is not looked at: only that its block  *)
(* was rendered.)                                                           *)
C13_Original ==
    [][\A i \in 1..Len(passes) :
          PassEnds(i) => /\ passes[i].n = Len(passes[i].ids)
                         /\ Displayed(passes[i]) => Resolved(preview', passes[i])]_vars

(* C13 amended: the same, for a pass whose placeholders are still the ones  *)
(* displayed when it finishes; a pass superseded by a load or by a later    *)
(* pass skips the blocks whose region is gone.                              *)
C13_AllBlocksResolved ==
    [][\A i \in 1..Len(passes) :
          (PassEnds(i) /\ Displayed(passes[i]))
             => /\ passes[i].n = Len(passes[i].ids)
                /\ Resolved(preview', passes[i])]_vars

(* A pass over two blocks has finished; the first block failed and the      *)
(* second was rendered.                                                     *)
C13_Witness ==
    /\ passes = <<>> /\ isPreviewMode
    /\ Len(preview) = 2
    /\ preview[1].fill = "error" /\ preview[2].fill = "svg"
    /\ preview[1].own /\ preview[2].own

(* ------------------------------- ordering ------------------------------- *)
(* The step handles a contentChanged event (in the provider) or a toggle    *)
(* event (in the view).                                                     *)
HandlesEvent ==
    \/ /\ toProvider /= <<>> /\ Head(toProvider).type = "contentChanged"
       /\ toProvider' = Tail(toProvider)
    \/ /\ toWebview /= <<>> /\ Head(toWebview).type = "togglePreview"
       /\ toWebview' = Tail(toWebview)
(* A load has set the path and not yet the text: openFile awaits its read.   *)
PathSetTextNot == \E r \in BagToSet(pendingReads) : r.op = "dialog"
(* A load has set path and text and the view is not yet reset: its          *)
(* loadContent message is in flight.                                        *)
TextSetViewNot ==
    \E k \in 1..Len(toWebview) :
        toWebview[k].type = "loadContent" /\ ~toWebview[k].resend

(* C14: a load always fully completes (path set, text set, view reset to    *)
(* Edit) before any later content-change or toggle event is processed: no   *)
(* such event is handled while a load has set the path but not the text, or *)
(* path and text but not yet reset the view.                                *)
C14_LoadCompletesFirst ==
    [][HandlesEvent => (~PathSetTextNot /\ ~TextSetViewNot)]_vars

(* C17: the diagram id counter is reset at the start of every render pass:  *)
(* in each pass the blocks get the ids 0, 1, 2, ... in document order, also *)
(* in a second pass on the same loaded document without a load in between.  *)
C17_IdsRestartPerPass ==
    [][(~isPreviewMode /\ isPreviewMode')
          => \A k \in 1..Len(preview') : preview'[k].id = k - 1]_vars

(* C18: a placeholder region in the displayed preview is only ever filled   *)
(* with the render result of a block of the pass that created it.           *)
C18_BlocksNotShared ==
    \A k \in 1..Len(preview) : preview[k].fill /= "empty" => preview[k].own

(* C19: whenever no render pass is in flight, the mode indicator shows      *)
(* 'Preview' exactly when the view is in preview mode and 'Edit' otherwise. *)
C19_IndicatorMatchesMode ==
    passes = <<>> => (modeIndicator = IF isPreviewMode THEN "Preview" ELSE "Edit")

(* -------------------------------- writes -------------------------------- *)
(* C15: every write to the backing store (auto-save or manual save) writes  *)
(* to path P only text that belongs to P: text read from P by a load, or    *)
(* text typed while P's text was the one displayed in the editor.           *)
C15_WritesOwnText ==
    lastWrite.kind \in {"auto", "manual"} => owner.mem = lastWrite.path

(* ------------------------------- restoring ------------------------------ *)
(* A document is loaded: a path is set and the text in memory is that       *)
(* path's text.                                                             *)
DocumentLoaded == currentFileUri /= None /\ owner.mem = currentFileUri
(* The step handles a 'ready' event, or it starts the read of the last file *)
(* (which only _restoreContent does, on 'ready' or on visibility restored). *)
RestoreHandled ==
    \/ /\ toProvider /= <<>> /\ Head(toProvider).type = "ready"
       /\ toProvider' = Tail(toProvider)
    \/ \E r \in BagToSet(pendingReads') :
           r.op = "last" /\ CopiesIn(r, pendingReads') > CopiesIn(r, pendingReads)

(* C20: a 'ready' or visibility-restored event received while a document is *)
(* loaded leaves path and in-memory text unchanged for every value of the   *)
(* text, the empty text included: it re-sends the in-memory text to the     *)
(* view and starts no read of the backing store.                            *)
C20_RestoreOnlyResends ==
    [][(DocumentLoaded /\ RestoreHandled)
          => /\ currentFileUri' = currentFileUri
             /\ currentContent' = currentContent
             /\ pendingReads' = pendingReads
             /\ Len(toWebview') = Len(toWebview) + 1
             /\ toWebview'[Len(toWebview')].type = "loadContent"
             /\ toWebview'[Len(toWebview')].content = currentContent]_vars

(* ------------------------------ consistency ----------------------------- *)
(* The view exists (so there is an editor), nothing is in flight between    *)
(* the view and the session, and no file read is awaited.                   *)
Quiescent ==
    view /\ toWebview = <<>> /\ toProvider = <<>> /\ pendingReads = EmptyBag

(* C21: whenever no message is in flight between the view and the session   *)
(* and no file read is pending, the text shown in the editor equals the     *)
(* session's in-memory text.                                                *)
C21_EditorShowsSessionText == Quiescent => editorValue = currentContent

(* C22: in every reachable state, when the stored last-opened-file pointer  *)
(* is set it equals the first entry of the recent-files list.               *)
C22_LastFileHeadsRecent ==
    lastFile /= None => (recentFiles /= <<>> /\ recentFiles[1] = lastFile)

(* Path 2 has been opened after path 1: the pointer has moved to it and it  *)
(* heads a list that holds the older path too.                              *)
C22_Witness ==
    /\ lastFile = 2 /\ recentFiles = <<2, 1>>
    /\ currentFileUri = 2 /\ pendingReads = EmptyBag

====
